---------------------------- MODULE Spec2Model ----------------------------
(***************************************************************************)
(* kj::modulebound_allocator (modulebound_allocator.h,                     *)
(* modulebound_allocator_fwddecl.h): an allocator that stores, per         *)
(* instance, the pair (operator new, operator delete) of the module whose  *)
(* code constructed it, and forwards allocate/deallocate to that pair.     *)
(*                                                                         *)
(* Two specifications:                                                     *)
(*   Spec         allocator instances living in a process made of several  *)
(*                modules, each module with its own C++ runtime heap;      *)
(*   SpecRebind   the compile-time part: specializations, the RawAllocation *)
(*                policy and rebind<U>.                                     *)
(***************************************************************************)
EXTENDS Integers, Sequences, FiniteSets, TLC

(***************************************************************************)
(* Bounds of the model.                                                    *)
(***************************************************************************)
NumModules == 2      \* modules (exe, dll, ...) linked with their own runtime
MaxAllocs  == 2      \* allocator objects alive at the same time
MaxBlocks  == 1      \* memory blocks alive at the same time
MaxSpecs   == 2      \* specializations instantiated in SpecRebind

\* Width of size_t in bits.  The multiplication in allocate() is done in
\* size_type and wraps at 2^SIZE_BITS; 16 is the smallest width the language
\* allows for size_t and keeps every product inside TLC's integers.
SIZE_BITS == 16
SIZE_MOD  == 2 ^ SIZE_BITS

Modules == 1 .. NumModules
Slots   == 1 .. MaxAllocs
Addrs   == 1 .. MaxBlocks
NullPtr == 0

(***************************************************************************)
(* enum raw_allocation_type                                                *)
(***************************************************************************)
raw_allocation_single == 0
raw_allocation_array  == 1
raw_allocation_deduce == 2
raw_allocation_type   ==
    {raw_allocation_single, raw_allocation_array, raw_allocation_deduce}

(***************************************************************************)
(* Element types.  A type is its innermost object type (base), whether     *)
(* that is const, whether the type has an array extent, and whether it is  *)
(* a reference:  [base |-> "char", const |-> FALSE, extent |-> TRUE,        *)
(* ref |-> TRUE] is char (&)[N].  There are no arrays of or references to  *)
(* void.                                                                   *)
(***************************************************************************)
Ty(b, c, e, r) == [base |-> b, const |-> c, extent |-> e, ref |-> r]

Types ==
    { Ty("char", c, e, r) : c \in BOOLEAN, e \in BOOLEAN, r \in BOOLEAN }
    \cup { Ty("void", FALSE, FALSE, FALSE) }

\* std::is_array<T>::value: T itself is an array type.  A reference to an
\* array is a reference type, not an array type.
is_array(T) == T.extent /\ ~T.ref

\* detail::remove_reference_and_all_extents<T>::type (cv-qualification stays)
remove_reference_and_all_extents(T) ==
    [T EXCEPT !.extent = FALSE, !.ref = FALSE]

\* value_type of std::allocator<remove_reference_and_all_extents<T>::type>
value_type(T) == remove_reference_and_all_extents(T)

\* sizeof(value_type)
sizeof(V) == IF V.base = "double" THEN 8 ELSE 1

\* default template argument of modulebound_allocator<T, RawAllocation>
DefaultRawAllocation(T) ==
    IF is_array(T) THEN raw_allocation_array ELSE raw_allocation_single

\* is_array_allocation as it would be if RawAllocation were not consulted:
\* always deduced from T
is_array_allocation_AlwaysDeduced(T, RawAllocation) == is_array(T)

\* modulebound_allocator_base<T, RawAllocation>::is_array_allocation::value
is_array_allocation(T, RawAllocation) ==
    IF RawAllocation = raw_allocation_deduce
    THEN is_array(T)
    ELSE RawAllocation = raw_allocation_array

\* rebind as it would be if it handed on the resolved kind instead of the
\* policy
rebind_PinsKind(T, RawAllocation, U) ==
    [T |-> U,
     RawAllocation |-> IF is_array_allocation(T, RawAllocation)
                       THEN raw_allocation_array ELSE raw_allocation_single]

\* modulebound_allocator_base<T, RawAllocation>::rebind<U>::other, as the
\* pair of template arguments of the resulting specialization
rebind(T, RawAllocation, U) == [T |-> U, RawAllocation |-> RawAllocation]

(***************************************************************************)
(* Raw functions.  ::operator new / ::operator new[] and ::operator delete *)
(* / ::operator delete[] exist once per module; a function pointer is      *)
(* identified by the module whose runtime it belongs to and by its form.   *)
(* fp_raw_allocate_t and fp_raw_deallocate_t are distinct types, so the    *)
(* first member of a pair is always a new and the second always a delete.  *)
(***************************************************************************)
RawFn(m, arr) == [module |-> m, array |-> arr]

\* a capture that pairs the selected operator new with the single-object
\* operator delete
fetch_raw_operators_MixedForms(m, arr) ==
    [first |-> RawFn(m, arr), second |-> RawFn(m, FALSE)]

\* detail::fetch_raw_operators(is_array_allocation), inlined into and so
\* evaluated against the runtime of module m
fetch_raw_operators(m, arr) ==
    [first |-> RawFn(m, arr), second |-> RawFn(m, arr)]

\* std::pair operator== / operator!= on raw_operators
PairEq(p, q) == p.first = q.first /\ p.second = q.second
PairNe(p, q) == ~PairEq(p, q)

(***************************************************************************)
(* State.                                                                  *)
(***************************************************************************)
VARIABLES
    msc_ver_ge_1600,  \* the build: value of the condition (_MSC_VER >= 1600)
    allocs,           \* slot -> allocator object (the slots in DOMAIN are alive)
    blocks,           \* address -> live memory block
    last,             \* the operation that led to this state, with its calls
    specs             \* SpecRebind: the specializations instantiated so far

vars == <<msc_ver_ge_1600, allocs, blocks, last, specs>>

\* The specializations the objects of Spec are instances of:
\* modulebound_allocator<double> and <char[]> with the default RawAllocation,
\* and what containers rebind the latter to: <char[]>::rebind<char>::other
\* and <char[]>::rebind<void>::other.
Specializations ==
    LET d  == Ty("double", FALSE, FALSE, FALSE)
        ca == Ty("char", FALSE, TRUE, FALSE)
        c  == Ty("char", FALSE, FALSE, FALSE)
        v  == Ty("void", FALSE, FALSE, FALSE)
    IN  { [T |-> d,  RawAllocation |-> DefaultRawAllocation(d)],
          [T |-> ca, RawAllocation |-> DefaultRawAllocation(ca)],
          rebind(ca, DefaultRawAllocation(ca), c),
          rebind(ca, DefaultRawAllocation(ca), v) }

\* counts handed to allocate() and deallocate(): a small one, and the first
\* one for which sizeof(double) * nCount leaves size_type
Counts == {4, SIZE_MOD \div 8}

NoFn   == [module |-> 0, array |-> FALSE]
NoPair == [first |-> NoFn, second |-> NoFn]

NoOp ==
    [op |-> "none", module |-> 0, self |-> 0, other |-> 0,
     pre |-> NoPair, pre_other |-> NoPair,
     calls |-> <<>>, n |-> 0, hinted |-> FALSE, hint |-> NullPtr,
     ptr |-> NullPtr,
     thrown |-> FALSE, undefined |-> FALSE, eq |-> FALSE, ne |-> FALSE]

\* the specialization an object is an instance of
SpecOf(a) == [T |-> a.T, RawAllocation |-> a.RawAllocation]

\* is_array_allocation::value of the object's class
KindOf(a) == is_array_allocation(a.T, a.RawAllocation)

\* modulebound_allocator_base::get_raw_operators()
get_raw_operators(a) == a.m_raw_operators

Live == DOMAIN allocs

\* the storage a new object is constructed in
FreeSlot == CHOOSE i \in Slots \ Live : \A j \in Slots \ Live : i <= j

\* A new object of specialization s holding pair p, constructed by module m.
\* created_in is not a member of the class: it records which module ran the
\* constructor.
NewAlloc(s, p, m) ==
    [T |-> s.T, RawAllocation |-> s.RawAllocation,
     m_raw_operators |-> p, created_in |-> m]

\* the static assertion of the cross-type constructors and assignments:
\* is_array_allocation::value == A_other::is_array_allocation::value
KindsMatch(s, a) == is_array_allocation(s.T, s.RawAllocation) = KindOf(a)

(***************************************************************************)
(* Construction, assignment, destruction.  m is the module whose code runs *)
(* the operation: the constructors and operators are templates and inline  *)
(* functions, so each module executes its own copy of them.                *)
(***************************************************************************)

\* What the operation leaves in `last`.
Did(name, m, self, other, pre, pre_other) ==
    [NoOp EXCEPT !.op = name, !.module = m, !.self = self, !.other = other,
                 !.pre = pre, !.pre_other = pre_other]

\* modulebound_allocator(): base(), m_raw_operators(fetch_raw_operators(...))
DefaultConstruct(m, s) ==
    /\ Live # Slots
    /\ allocs' = allocs @@ (FreeSlot :>
           NewAlloc(s, fetch_raw_operators(m, is_array_allocation(s.T, s.RawAllocation)), m))
    /\ last' = Did("default_construct", m, FreeSlot, 0, NoPair, NoPair)
    /\ UNCHANGED <<msc_ver_ge_1600, blocks, specs>>

\* the copy constructor as it would be if it copied rOther's pair
CopyConstruct_CopiesPair(m, j) ==
    /\ Live # Slots
    /\ j \in Live
    /\ allocs' = allocs @@ (FreeSlot :>
           NewAlloc(SpecOf(allocs[j]), get_raw_operators(allocs[j]), m))
    /\ last' = Did("copy_construct", m, FreeSlot, j,
                   NoPair, get_raw_operators(allocs[j]))
    /\ UNCHANGED <<msc_ver_ge_1600, blocks, specs>>

\* modulebound_allocator(const modulebound_allocator&) (implicit), running
\* modulebound_allocator_base(const modulebound_allocator_base& rOther)
CopyConstruct(m, j) ==
    /\ Live # Slots
    /\ j \in Live
    /\ LET s == SpecOf(allocs[j])
       IN  allocs' = allocs @@ (FreeSlot :>
               NewAlloc(s, fetch_raw_operators(m, is_array_allocation(s.T, s.RawAllocation)), m))
    /\ last' = Did("copy_construct", m, FreeSlot, j,
                   NoPair, get_raw_operators(allocs[j]))
    /\ UNCHANGED <<msc_ver_ge_1600, blocks, specs>>

\* modulebound_allocator(const modulebound_allocator<U, RawAllocationU>&),
\* running the cross-type copy constructor of the base.  s is the
\* specialization constructed, a different one than rOther's.  With
\* _MSC_VER >= 1600 the body names A_other before any declaration of it, so
\* an instantiation does not compile and the constructor cannot be used.
CopyConstructX(m, j, s) ==
    /\ ~msc_ver_ge_1600
    /\ Live # Slots
    /\ j \in Live
    /\ s # SpecOf(allocs[j])
    /\ KindsMatch(s, allocs[j])
    /\ allocs' = allocs @@ (FreeSlot :>
           NewAlloc(s, fetch_raw_operators(m, is_array_allocation(s.T, s.RawAllocation)), m))
    /\ last' = Did("copy_construct_x", m, FreeSlot, j,
                   NoPair, get_raw_operators(allocs[j]))
    /\ UNCHANGED <<msc_ver_ge_1600, blocks, specs>>

\* copy assignment as it would be without the test this != &rOther
CopyAssign_NoSelfTest(m, i, j) ==
    /\ i \in Live /\ j \in Live
    /\ SpecOf(allocs[i]) = SpecOf(allocs[j])
    /\ allocs' = [allocs EXCEPT ![i].m_raw_operators =
                     fetch_raw_operators(m, KindOf(allocs[i]))]
    /\ last' = Did("copy_assign", m, i, j,
                   get_raw_operators(allocs[i]), get_raw_operators(allocs[j]))
    /\ UNCHANGED <<msc_ver_ge_1600, blocks, specs>>

\* modulebound_allocator& operator=(const modulebound_allocator&) (implicit),
\* running modulebound_allocator_base::operator=(const
\* modulebound_allocator_base& rOther); i = j is self-assignment
CopyAssign(m, i, j) ==
    /\ i \in Live /\ j \in Live
    /\ SpecOf(allocs[i]) = SpecOf(allocs[j])
    /\ allocs' =
         IF i # j
         THEN [allocs EXCEPT ![i].m_raw_operators =
                  fetch_raw_operators(m, KindOf(allocs[i]))]
         ELSE allocs
    /\ last' = Did("copy_assign", m, i, j,
                   get_raw_operators(allocs[i]), get_raw_operators(allocs[j]))
    /\ UNCHANGED <<msc_ver_ge_1600, blocks, specs>>

\* modulebound_allocator::operator=(const modulebound_allocator<U,
\* RawAllocationU>&), running the cross-type operator= of the base.  Objects
\* of two different specializations are never the same object.
CopyAssignX(m, i, j) ==
    /\ i \in Live /\ j \in Live
    /\ SpecOf(allocs[i]) # SpecOf(allocs[j])
    /\ KindsMatch(SpecOf(allocs[i]), allocs[j])
    /\ allocs' =
         IF i # j
         THEN [allocs EXCEPT ![i].m_raw_operators =
                  fetch_raw_operators(m, KindOf(allocs[i]))]
         ELSE allocs
    /\ last' = Did("copy_assign_x", m, i, j,
                   get_raw_operators(allocs[i]), get_raw_operators(allocs[j]))
    /\ UNCHANGED <<msc_ver_ge_1600, blocks, specs>>

\* modulebound_allocator(const modulebound_allocator&& rOther), running
\* modulebound_allocator_base(const modulebound_allocator_base&& rOther);
\* compiled only with _MSC_VER >= 1600
MoveConstruct(m, j) ==
    /\ msc_ver_ge_1600
    /\ Live # Slots
    /\ j \in Live
    /\ allocs' = allocs @@ (FreeSlot :>
           NewAlloc(SpecOf(allocs[j]), get_raw_operators(allocs[j]), m))
    /\ last' = Did("move_construct", m, FreeSlot, j,
                   NoPair, get_raw_operators(allocs[j]))
    /\ UNCHANGED <<msc_ver_ge_1600, blocks, specs>>

\* modulebound_allocator(const modulebound_allocator<U, RawAllocationU>&&),
\* running the cross-type move constructor of the base
MoveConstructX(m, j, s) ==
    /\ msc_ver_ge_1600
    /\ Live # Slots
    /\ j \in Live
    /\ s # SpecOf(allocs[j])
    /\ KindsMatch(s, allocs[j])
    /\ allocs' = allocs @@ (FreeSlot :>
           NewAlloc(s, get_raw_operators(allocs[j]), m))
    /\ last' = Did("move_construct_x", m, FreeSlot, j,
                   NoPair, get_raw_operators(allocs[j]))
    /\ UNCHANGED <<msc_ver_ge_1600, blocks, specs>>

\* move assignment as it would be if it captured like copy assignment
MoveAssign_Recaptures(m, i, j) ==
    /\ msc_ver_ge_1600
    /\ i \in Live /\ j \in Live
    /\ SpecOf(allocs[i]) = SpecOf(allocs[j])
    /\ allocs' =
         IF i # j
         THEN [allocs EXCEPT ![i].m_raw_operators =
                  fetch_raw_operators(m, KindOf(allocs[i]))]
         ELSE allocs
    /\ last' = Did("move_assign", m, i, j,
                   get_raw_operators(allocs[i]), get_raw_operators(allocs[j]))
    /\ UNCHANGED <<msc_ver_ge_1600, blocks, specs>>

\* modulebound_allocator& operator=(const modulebound_allocator&& rOther),
\* running modulebound_allocator_base::operator=(const
\* modulebound_allocator_base&& rOther); i = j is self-assignment
MoveAssign(m, i, j) ==
    /\ msc_ver_ge_1600
    /\ i \in Live /\ j \in Live
    /\ SpecOf(allocs[i]) = SpecOf(allocs[j])
    /\ allocs' =
         IF i # j
         THEN [allocs EXCEPT ![i].m_raw_operators = get_raw_operators(allocs[j])]
         ELSE allocs
    /\ last' = Did("move_assign", m, i, j,
                   get_raw_operators(allocs[i]), get_raw_operators(allocs[j]))
    /\ UNCHANGED <<msc_ver_ge_1600, blocks, specs>>

\* the names the body of the cross-type move assignment of
\* modulebound_allocator (typed and void) can refer to for its argument
DeclaredInMoveAssignX == {"rOther"}

\* modulebound_allocator::operator=(const modulebound_allocator<U,
\* RawAllocationU>&&), which is to run the cross-type move operator= of the
\* base.  Its body forwards std::move(Other): Other is declared nowhere, so
\* no instantiation compiles, no program executes it, and Next has no
\* disjunct for it.
MoveAssignX(m, i, j) ==
    /\ msc_ver_ge_1600
    /\ "Other" \in DeclaredInMoveAssignX
    /\ i \in Live /\ j \in Live
    /\ SpecOf(allocs[i]) # SpecOf(allocs[j])
    /\ KindsMatch(SpecOf(allocs[i]), allocs[j])
    /\ allocs' =
         IF i # j
         THEN [allocs EXCEPT ![i].m_raw_operators = get_raw_operators(allocs[j])]
         ELSE allocs
    /\ last' = Did("move_assign_x", m, i, j,
                   get_raw_operators(allocs[i]), get_raw_operators(allocs[j]))
    /\ UNCHANGED <<msc_ver_ge_1600, blocks, specs>>

\* ~modulebound_allocator() (implicit).  Blocks the object allocated stay
\* allocated; they lose their allocator.
Destroy(i) ==
    /\ i \in Live
    /\ allocs' = [k \in Live \ {i} |-> allocs[k]]
    /\ blocks' = [p \in DOMAIN blocks |->
                    IF blocks[p].by = i THEN [blocks[p] EXCEPT !.by = 0]
                    ELSE blocks[p]]
    /\ last' = Did("destroy", 0, i, 0, NoPair, NoPair)
    /\ UNCHANGED <<msc_ver_ge_1600, specs>>

(***************************************************************************)
(* allocate, deallocate, comparison.  The raw function reached is the one  *)
(* the object stores, whichever module's code makes the call; for          *)
(* deallocate that module, m, is recorded.                                 *)
(***************************************************************************)

\* the typed allocator; modulebound_allocator<void, RawAllocation> has
\* neither allocate nor deallocate
IsTyped(a) == a.T.base # "void"

\* sizeof(value_type) * nCount, computed in size_type
ByteCount(a, nCount) == (sizeof(value_type(a.T)) * nCount) % SIZE_MOD

\* allocate that calls operator new a second time when the first call throws
allocate_RetriesOnFailure(i, nCount, hinted, hint) ==
    /\ i \in Live
    /\ IsTyped(allocs[i])
    /\ LET fn   == get_raw_operators(allocs[i]).first
           call == [fn |-> fn, arg |-> ByteCount(allocs[i], nCount), ret |-> NullPtr]
           did  == [Did("allocate", 0, i, 0, get_raw_operators(allocs[i]), NoPair)
                      EXCEPT !.calls = <<call>>, !.n = nCount,
                             !.hinted = hinted, !.hint = hint]
       IN  \/ /\ blocks' = blocks
              /\ last' = [did EXCEPT !.calls = <<call, call>>, !.thrown = TRUE]
           \/ \E p \in Addrs \ DOMAIN blocks :
                /\ blocks' = blocks @@ (p :> [fn |-> fn, by |-> i])
                /\ last' = [did EXCEPT !.calls = <<[call EXCEPT !.ret = p]>>,
                                       !.ptr = p]
    /\ UNCHANGED <<msc_ver_ge_1600, allocs, specs>>

\* allocate(size_type nCount): one call of get_raw_operators().first.  The
\* operator new called either throws std::bad_alloc or returns the address
\* of a new block of its module's heap.
allocate(i, nCount, hinted, hint) ==
    /\ i \in Live
    /\ IsTyped(allocs[i])
    /\ LET fn   == get_raw_operators(allocs[i]).first
           call == [fn |-> fn, arg |-> ByteCount(allocs[i], nCount), ret |-> NullPtr]
           did  == [Did("allocate", 0, i, 0, get_raw_operators(allocs[i]), NoPair)
                      EXCEPT !.calls = <<call>>, !.n = nCount,
                             !.hinted = hinted, !.hint = hint]
       IN  \/ /\ blocks' = blocks
              /\ last' = [did EXCEPT !.thrown = TRUE]
           \/ \E p \in Addrs \ DOMAIN blocks :
                /\ blocks' = blocks @@ (p :> [fn |-> fn, by |-> i])
                /\ last' = [did EXCEPT !.calls = <<[call EXCEPT !.ret = p]>>,
                                       !.ptr = p]
    /\ UNCHANGED <<msc_ver_ge_1600, allocs, specs>>

\* pointer allocate(size_type nCount)
Allocate(i, nCount) == allocate(i, nCount, FALSE, NullPtr)

\* pointer allocate(size_type nCount, const_pointer): forwards to the
\* no-hint version
AllocateHint(i, nCount, hint) == allocate(i, nCount, TRUE, hint)

\* deallocate as std::allocator does it: the operator delete the calling
\* module is linked with
Deallocate_CallersDelete(m, i, p, n) ==
    /\ i \in Live
    /\ IsTyped(allocs[i])
    /\ p \in {NullPtr} \cup DOMAIN blocks
    /\ LET fn == fetch_raw_operators(m, KindOf(allocs[i])).second
           released == [q \in DOMAIN blocks \ {p} |-> blocks[q]]
       IN  /\ last' = [Did("deallocate", m, i, 0, get_raw_operators(allocs[i]), NoPair)
                         EXCEPT !.calls = <<[fn |-> fn, arg |-> p, ret |-> NullPtr]>>,
                                !.n = n, !.ptr = p,
                                !.undefined = (p # NullPtr /\ blocks[p].fn # fn),
                                !.other = IF p = NullPtr THEN 0 ELSE blocks[p].by,
                                !.pre_other =
                                    IF p = NullPtr THEN NoPair
                                    ELSE [first |-> blocks[p].fn, second |-> NoFn]]
           /\ IF p = NullPtr
              THEN blocks' = blocks
              ELSE IF blocks[p].fn = fn
              THEN blocks' = released
              ELSE blocks' \in {blocks, released}
    /\ UNCHANGED <<msc_ver_ge_1600, allocs, specs>>

\* deallocate(pointer p, size_type): one call of get_raw_operators().second.
\* The operator delete called does nothing for a null pointer and releases a
\* block of its own module and form; for a block of another module's heap, or
\* of the other form, its behaviour is undefined: the block may or may not
\* be gone afterwards.
Deallocate(m, i, p, n) ==
    /\ i \in Live
    /\ IsTyped(allocs[i])
    /\ p \in {NullPtr} \cup DOMAIN blocks
    /\ LET fn == get_raw_operators(allocs[i]).second
           released == [q \in DOMAIN blocks \ {p} |-> blocks[q]]
       IN  /\ last' = [Did("deallocate", m, i, 0, get_raw_operators(allocs[i]), NoPair)
                         EXCEPT !.calls = <<[fn |-> fn, arg |-> p, ret |-> NullPtr]>>,
                                !.n = n, !.ptr = p,
                                !.undefined = (p # NullPtr /\ blocks[p].fn # fn),
                                !.other = IF p = NullPtr THEN 0 ELSE blocks[p].by,
                                !.pre_other =
                                    IF p = NullPtr THEN NoPair
                                    ELSE [first |-> blocks[p].fn, second |-> NoFn]]
           /\ IF p = NullPtr
              THEN blocks' = blocks
              ELSE IF blocks[p].fn = fn
              THEN blocks' = released
              ELSE blocks' \in {blocks, released}
    /\ UNCHANGED <<msc_ver_ge_1600, allocs, specs>>

\* bool operator==(rLeft, rRight)
op_eq(rLeft, rRight) ==
    PairEq(get_raw_operators(rLeft), get_raw_operators(rRight))

\* operator!= as it would be had the body of operator== been pasted unchanged
op_ne_PastedFromEq(rLeft, rRight) ==
    PairEq(get_raw_operators(rLeft), get_raw_operators(rRight))

\* bool operator!=(rLeft, rRight)
op_ne(rLeft, rRight) ==
    PairNe(get_raw_operators(rLeft), get_raw_operators(rRight))

\* a == b and a != b evaluated for two allocators of any two specializations
Compare(i, j) ==
    /\ i \in Live /\ j \in Live
    /\ last' = [Did("compare", 0, i, j,
                    get_raw_operators(allocs[i]), get_raw_operators(allocs[j]))
                  EXCEPT !.eq = op_eq(allocs[i], allocs[j]),
                         !.ne = op_ne(allocs[i], allocs[j])]
    /\ UNCHANGED <<msc_ver_ge_1600, allocs, blocks, specs>>

(***************************************************************************)
(* The process.                                                            *)
(***************************************************************************)
Init ==
    /\ msc_ver_ge_1600 \in BOOLEAN
    /\ allocs = <<>>
    /\ blocks = <<>>
    /\ last = NoOp
    /\ specs = {}

Next ==
    \/ \E m \in Modules, s \in Specializations : DefaultConstruct(m, s)
    \/ \E m \in Modules, j \in Slots : CopyConstruct(m, j)
    \/ \E m \in Modules, j \in Slots, s \in Specializations : CopyConstructX(m, j, s)
    \/ \E m \in Modules, i \in Slots, j \in Slots : CopyAssign(m, i, j)
    \/ \E m \in Modules, i \in Slots, j \in Slots : CopyAssignX(m, i, j)
    \/ \E m \in Modules, j \in Slots : MoveConstruct(m, j)
    \/ \E m \in Modules, j \in Slots, s \in Specializations : MoveConstructX(m, j, s)
    \/ \E m \in Modules, i \in Slots, j \in Slots : MoveAssign(m, i, j)
    \/ \E i \in Slots : Destroy(i)
    \/ \E i \in Slots, n \in Counts : Allocate(i, n)
    \/ \E i \in Slots, n \in Counts, h \in {NullPtr} \cup Addrs :
          AllocateHint(i, n, h)
    \/ \E m \in Modules, i \in Slots, p \in {NullPtr} \cup Addrs, n \in Counts :
          Deallocate(m, i, p, n)
    \/ \E i \in Slots, j \in Slots : Compare(i, j)

Spec == Init /\ [][Next]_vars

(***************************************************************************)
(* The compile-time part: which specializations a program names.  specs is *)
(* the set of specializations instantiated so far.  Besides its template   *)
(* arguments and its is_array_allocation, an entry records how it came to  *)
(* be: whether RawAllocation was left to the default argument at the start *)
(* of its rebind chain (defaulted), whether it is the result of rebind     *)
(* (rebound), and RawAllocation and is_array_allocation of the first       *)
(* specialization of its chain (declared, root).                           *)
(***************************************************************************)
Instance(T, R, defaulted, rebound, declared, root) ==
    [T |-> T, RawAllocation |-> R,
     is_array_allocation |-> is_array_allocation(T, R),
     defaulted |-> defaulted, rebound |-> rebound,
     declared |-> declared, root |-> root]

\* modulebound_allocator<T, std::integral_constant<raw_allocation_type, R> >
Instantiate(T, R) ==
    /\ Cardinality(specs) < MaxSpecs
    /\ specs' = specs \cup
         {Instance(T, R, FALSE, FALSE, R, is_array_allocation(T, R))}
    /\ UNCHANGED <<msc_ver_ge_1600, allocs, blocks, last>>

\* modulebound_allocator<T>
InstantiateDefault(T) ==
    /\ Cardinality(specs) < MaxSpecs
    /\ LET R == DefaultRawAllocation(T)
       IN  specs' = specs \cup
             {Instance(T, R, TRUE, FALSE, R, is_array_allocation(T, R))}
    /\ UNCHANGED <<msc_ver_ge_1600, allocs, blocks, last>>

\* A::rebind<U>::other for an instantiated A
Rebind(A, U) ==
    /\ A \in specs
    /\ Cardinality(specs) < MaxSpecs
    /\ LET other == rebind(A.T, A.RawAllocation, U)
       IN  specs' = specs \cup
             {Instance(other.T, other.RawAllocation,
                       A.defaulted, TRUE, A.declared, A.root)}
    /\ UNCHANGED <<msc_ver_ge_1600, allocs, blocks, last>>

\* a specialization goes out of consideration (rebind chains are not bounded
\* by the number of specializations looked at together)
Forget(A) ==
    /\ A \in specs
    /\ specs' = specs \ {A}
    /\ UNCHANGED <<msc_ver_ge_1600, allocs, blocks, last>>

InitRebind ==
    /\ msc_ver_ge_1600 = FALSE
    /\ allocs = <<>>
    /\ blocks = <<>>
    /\ last = NoOp
    /\ specs = {}

\* specs is a finite set of records; the candidates of \E are the live ones
NextRebind ==
    \/ \E T \in Types, R \in raw_allocation_type : Instantiate(T, R)
    \/ \E T \in Types : InstantiateDefault(T)
    \/ \E A \in specs, U \in Types : Rebind(A, U)
    \/ \E A \in specs : Forget(A)

SpecRebind == InitRebind /\ [][NextRebind]_vars

(***************************************************************************)
(* Properties.                                                             *)
(***************************************************************************)

\* the raw call the last operation made
TheCall == last.calls[1]

Copied == last.op \in {"copy_construct", "copy_construct_x"}
Moved  == last.op \in {"move_construct", "move_construct_x", "move_assign"}
CopyAssigned == last.op \in {"copy_assign", "copy_assign_x"}

\* C1: a block an allocator object allocated and that is handed back to the
\* same object's deallocate is released by the operator delete of the module
\* and form of the operator new that produced it, whatever was done to the
\* object in between.
C1_ReleasedWhereAllocated ==
    (last.op = "deallocate" /\ last.ptr # NullPtr /\ last.other = last.self)
        => TheCall.fn = last.pre_other.first

C3_MoveCopiesPair ==
    Moved =>
        /\ get_raw_operators(allocs[last.self]) = last.pre_other
        /\ get_raw_operators(allocs[last.other]) = last.pre_other
        /\ op_eq(allocs[last.self], allocs[last.other])

\* C3 witness: a move assignment between two objects holding different pairs,
\* run by a module other than the one the source's pair comes from
C3_Witness ==
    /\ last.op = "move_assign"
    /\ last.self # last.other
    /\ last.pre # last.pre_other
    /\ last.pre_other.first.module # last.module

\* C4: copy assignment a = b leaves a's pair alone when a and b are the same
\* object; otherwise a holds the pair captured by the module running the
\* assignment, for a's kind; b's pair is unchanged.
C4_CopyAssignRecaptures ==
    CopyAssigned =>
        LET a == allocs[last.self]
            b == allocs[last.other]
        IN  /\ IF last.self = last.other
               THEN get_raw_operators(a) = last.pre
               ELSE /\ get_raw_operators(a).first  = RawFn(last.module, KindOf(a))
                    /\ get_raw_operators(a).second = RawFn(last.module, KindOf(a))
            /\ get_raw_operators(b) = last.pre_other

\* C4 witness: an assignment between two objects that changed a's pair to one
\* that is not b's
C4_Witness ==
    /\ CopyAssigned
    /\ last.self # last.other
    /\ get_raw_operators(allocs[last.self]) # last.pre
    /\ get_raw_operators(allocs[last.self]) # last.pre_other

\* C5: a == b is true exactly when both functions of the two pairs are
\* identical, a != b is its negation, and a == b iff b == a.
C5_EqualityIsPairIdentity ==
    /\ last.op = "compare" =>
         /\ last.eq <=> (/\ last.pre.first = last.pre_other.first
                         /\ last.pre.second = last.pre_other.second)
         /\ last.ne <=> ~last.eq
    /\ \A i \in Live, j \in Live :
         /\ op_eq(allocs[i], allocs[j]) <=> op_eq(allocs[j], allocs[i])
         /\ op_ne(allocs[i], allocs[j]) <=> ~op_eq(allocs[i], allocs[j])

\* C5 witness: two objects of the same module were compared and found unequal
\* (their pairs are of different forms)
C5_Witness ==
    /\ last.op = "compare"
    /\ last.ne /\ ~last.eq
    /\ last.pre.first.module = last.pre_other.first.module

C7_KindFromPolicyAndType ==
    \A A \in specs :
        /\ A.RawAllocation = A.declared
        /\ A.RawAllocation = raw_allocation_single => ~A.is_array_allocation
        /\ A.RawAllocation = raw_allocation_array => A.is_array_allocation
        /\ A.RawAllocation = raw_allocation_deduce =>
               (A.is_array_allocation <=> (A.T.extent /\ ~A.T.ref))

\* C7 witness: a deduce allocator over an array type was rebound to a
\* non-array type and resolves to single; another rebound to an array type
\* resolves to array
C7_Witness ==
    \E A \in specs, B \in specs :
        /\ A.rebound /\ A.declared = raw_allocation_deduce /\ A.root
        /\ ~A.T.extent /\ ~A.is_array_allocation
        /\ B.rebound /\ B.declared = raw_allocation_deduce /\ B.root
        /\ B.T.extent /\ ~B.T.ref /\ B.is_array_allocation

\* C8: with RawAllocation pinned to single or array, by an explicit argument
\* or by the default argument, every specialization of a rebind chain has the
\* is_array_allocation of the first one.
C8_PinnedKindSurvivesRebind ==
    \A A \in specs :
        A.declared # raw_allocation_deduce =>
            A.is_array_allocation = A.root

\* C8 witness: modulebound_allocator<char[]> with the default RawAllocation,
\* rebound to a non-array type, still uses the array functions
C8_Witness ==
    \E A \in specs :
        /\ A.rebound /\ A.defaulted /\ A.root
        /\ ~A.T.extent
        /\ A.is_array_allocation

\* the RawAllocation argument a specialization was written with
PolicyArgument(A) ==
    IF A.defaulted /\ ~A.rebound THEN "default" ELSE ToString(A.RawAllocation)

\* C9: two specializations written with the same policy whose element types
\* differ only in const or in being a reference have the same
\* is_array_allocation.
C9_KindIgnoresConstAndReference ==
    \A A \in specs, B \in specs :
        (/\ PolicyArgument(A) = PolicyArgument(B)
         /\ A.T.base = B.T.base
         /\ A.T.extent = B.T.extent)
            => A.is_array_allocation = B.is_array_allocation

\* C10: allocate(n), with or without hint, calls the stored allocate function
\* once, with n * sizeof(value_type) bytes, and returns what it returned.
C10_ByteCountIsProduct ==
    last.op = "allocate" =>
        /\ Len(last.calls) = 1
        /\ TheCall.fn = last.pre.first
        /\ TheCall.arg = last.n * sizeof(value_type(allocs[last.self].T))
        /\ (~last.thrown => last.ptr = TheCall.ret)

\* C11: deallocate(p, n), for p null or a block this allocator allocated,
\* calls the stored deallocate function once with p, has an effect that p
\* alone determines (the block is released; nothing is for a null pointer)
\* and stays within defined behaviour.
C11_DeallocateForwardsSafely ==
    [][ (/\ last'.op = "deallocate"
         /\ (last'.ptr = NullPtr \/ last'.other = last'.self))
          => /\ Len(last'.calls) = 1
             /\ last'.calls[1].fn = get_raw_operators(allocs[last'.self]).second
             /\ last'.calls[1].arg = last'.ptr
             /\ ~last'.undefined
             /\ allocs' = allocs
             /\ blocks' = [q \in DOMAIN blocks \ {last'.ptr} |-> blocks[q]] ]_vars

\* C12: an allocate whose operator new throws has made exactly that one
\* call, of the stored allocate function, yields no pointer, and changes
\* neither a pair of any allocator nor a block; the next allocate or
\* deallocate of the same allocator calls a function of the same pair.
C12_FailurePropagatesUnchanged ==
    [][ /\ (last'.op = "allocate" /\ last'.thrown)
          => /\ Len(last'.calls) = 1
             /\ last'.calls[1].fn = get_raw_operators(allocs[last'.self]).first
             /\ last'.calls[1].ret = NullPtr
             /\ last'.ptr = NullPtr
             /\ allocs' = allocs
             /\ blocks' = blocks
        /\ (/\ last.op = "allocate" /\ last.thrown
            /\ last'.op \in {"allocate", "deallocate"}
            /\ last'.self = last.self)
          => /\ last'.pre = last.pre
             /\ last'.calls[1].fn =
                  IF last'.op = "allocate" THEN last.pre.first
                  ELSE last.pre.second ]_vars

\* an allocate has thrown while another allocator and a block are live, and
\* the pair the failing allocator holds is not the one it was created with
C12_Witness ==
    /\ last.op = "allocate" /\ last.thrown
    /\ Cardinality(Live) = 2
    /\ blocks # <<>>
    /\ last.pre.first.module # allocs[last.self].created_in

\* C13: between two allocators of different specializations, each of
\* cross-type copy construction, copy assignment, move construction and
\* move assignment can execute exactly when the resolved kinds of the two
\* specializations match (the move operations in the build that has move
\* semantics); typed and void specializations alike.
C13_KindsGateAllFour ==
    \A i \in Live : \A j \in Live :
        SpecOf(allocs[i]) # SpecOf(allocs[j]) =>
            LET s     == SpecOf(allocs[i])
                match == KindsMatch(s, allocs[j])
            IN  /\ (\E m \in Modules : ENABLED CopyAssignX(m, i, j)) <=> match
                /\ Live # Slots =>
                     ((\E m \in Modules : ENABLED CopyConstructX(m, j, s)) <=> match)
                /\ msc_ver_ge_1600 =>
                     ((\E m \in Modules : ENABLED MoveAssignX(m, i, j)) <=> match)
                /\ (msc_ver_ge_1600 /\ Live # Slots) =>
                     ((\E m \in Modules : ENABLED MoveConstructX(m, j, s)) <=> match)

\* C14: every live allocator, typed or void, holds a pair whose two
\* functions belong to one module and have one form, the form its own
\* specialization resolves to.
C14_PairWellFormed ==
    \A i \in Live :
        LET pair == get_raw_operators(allocs[i])
        IN  /\ pair.first.module \in Modules
            /\ pair.second.module = pair.first.module
            /\ pair.second.array = pair.first.array
            /\ pair.first.array =
                 is_array_allocation(allocs[i].T, allocs[i].RawAllocation)

\* a void allocator move-constructed from an allocator of another
\* specialization, by a module other than the one whose pair it now holds
C14_Witness ==
    /\ last.op = "move_construct_x"
    /\ last.self \in Live
    /\ ~IsTyped(allocs[last.self])
    /\ get_raw_operators(allocs[last.self]).first.module # allocs[last.self].created_in

=============================================================================
